---- MODULE Spec2Model ----
(***************************************************************************)
(* Model of pages/api/refreshYieldInstruction.ts: the yield refresh        *)
(* handler of the staking service and its yield computation rule.          *)
(*                                                                         *)
(* Two specifications:                                                     *)
(*   SpecYield  computeExpectedYield applied to bounded metadata inputs;   *)
(*   Spec       the request handler, one step per awaited call, run on a   *)
(*              sequence of requests against the on-chain reward entries.  *)
(***************************************************************************)
EXTENDS Integers, Sequences, FiniteSets, TLC

(* ------------------------------ bounds --------------------------------- *)

\* longest attribute list drawn for computeExpectedYield
MaxAttrs == 3

\* largest multiplierDecimals of the reward distributor
MaxDecimals == 2

(* ------------------------- optional values ----------------------------- *)

\* JavaScript undefined / null, and a present value, as a sequence of
\* length 0 or 1 (so that every optional value has one comparable shape).
Undefined == <<>>

Some(x) == <<x>>

IsDefined(o) == o # <<>>

Get(o) == o[1]

(* --------------------- the yield computation rule ---------------------- *)

legendarySkins ==
    {"Abstract Colors", "Bat", "Crystal", "Demon", "Dragon", "Gold", "Lava"}

\* attributes.filter(att => att.trait_type === trait)
filterTrait(attributes, trait) ==
    SelectSeq(attributes, LAMBDA att : att.trait_type = trait)

\* nft?.externalMetadata.attributes
attributesOf(nft) ==
    IF IsDefined(nft) THEN Get(nft).externalMetadata.attributes ELSE Undefined

\* variant: any Skin entry of the list may bring the bonus
SkinBonusAnySkin(attributes) ==
    IF ~IsDefined(attributes) THEN 0
    ELSE IF \E i \in 1..Len(Get(attributes)) :
               /\ Get(attributes)[i].trait_type = "Skin"
               /\ Get(attributes)[i].value \in legendarySkins
         THEN 2 ELSE 0

\* variant: the legendary set is not consulted
SkinBonusNoSetCheck(attributes) ==
    IF ~IsDefined(attributes) THEN 0
    ELSE LET skin == filterTrait(Get(attributes), "Skin")
         IN  IF Len(skin) > 0 /\ skin[1].value # "" THEN 2 ELSE 0

\* lines 152-159: the first Skin entry decides
SkinBonus(attributes) ==
    IF ~IsDefined(attributes) THEN 0
    ELSE LET skin == filterTrait(Get(attributes), "Skin")
         IN  IF Len(skin) > 0 /\ skin[1].value # "" /\ skin[1].value \in legendarySkins
             THEN 2 ELSE 0

\* lines 166-173: the if / else-if ladder over the badge value
badgeLadder(value) ==
    IF value = "Bronze" THEN 5
    ELSE IF value = "Silver" THEN 7
    ELSE IF value = "Gold" THEN 9
    ELSE IF value = "Platinum" THEN 11
    ELSE IF value = "Diamond" THEN 15
    ELSE 0

\* variant: the tier bonuses of all Badge entries are added
RECURSIVE sumLadder(_)
sumLadder(badge) ==
    IF badge = <<>> THEN 0 ELSE badgeLadder(Head(badge).value) + sumLadder(Tail(badge))

BadgeBonusAllBadges(attributes) ==
    IF ~IsDefined(attributes) THEN 0
    ELSE sumLadder(filterTrait(Get(attributes), "Badge"))

\* lines 161-174: the first Badge entry decides
BadgeBonus(attributes) ==
    IF ~IsDefined(attributes) THEN 0
    ELSE LET badge == filterTrait(Get(attributes), "Badge")
         IN  IF Len(badge) > 0 THEN badgeLadder(badge[1].value) ELSE 0

\* lines 176-180: the first Vignette entry decides
VignetteBonus(attributes) ==
    IF ~IsDefined(attributes) THEN 0
    ELSE LET imposter == filterTrait(Get(attributes), "Vignette")
         IN  IF Len(imposter) > 0 /\ imposter[1].value = "Alpaca" THEN 5 ELSE 0

\* lines 143-183, given the result of getNFTMetadata
computeExpectedYield(nft) ==
    LET attributes == attributesOf(nft)
    IN  2 + SkinBonus(attributes) + BadgeBonus(attributes) + VignetteBonus(attributes)

\* lines 186-203: the NFT record, or undefined when any step of the fetch throws
getNFTMetadata(fetchOk, externalMetadata) ==
    IF fetchOk THEN Some([externalMetadata |-> externalMetadata]) ELSE Undefined

(* ------------------- addresses and on-chain accounts ------------------- *)

Mints == {"mintA", "mintB"}

Users == {"user1"}

Pools == {"pool1"}

\* a body field that is missing or is not a valid account address
Malformed == "malformed"

Methods == {"POST", "GET"}

RECURSIVE Pow10(_)
\* 10 ** n
Pow10(n) == IF n = 0 THEN 1 ELSE 10 * Pow10(n - 1)

\* program-derived addresses, as the tuple of the seeds they are derived from
findRewardDistributorId(stakePoolKey) == <<"rewardDistributor", stakePoolKey>>

findStakeEntryIdFromMint(userPubkey, stakePoolKey, mint) ==
    <<"stakeEntry", stakePoolKey, userPubkey, mint>>

findRewardEntryId(rewardDistributorId, stakeEntryId) ==
    <<"rewardEntry", rewardDistributorId, stakeEntryId>>

RewardEntryIds ==
    { findRewardEntryId(findRewardDistributorId(p), findStakeEntryIdFromMint(u, p, m)) :
        p \in Pools, u \in Users, m \in Mints }

\* externally hosted metadata documents the handler is run against:
\* no attributes field, an empty list, and lists with recognised traits
HandlerDocs ==
    { [attributes |-> Undefined],
      [attributes |-> Some(<< >>)],
      [attributes |-> Some(<< [trait_type |-> "Vignette", value |-> "Alpaca"] >>)],
      [attributes |-> Some(<< [trait_type |-> "Skin", value |-> "Gold"],
                              [trait_type |-> "Badge", value |-> "Platinum"] >>)] }

\* multipliers a reward entry may hold before the first request
InitMultipliers == {0} \cup { 2 * Pow10(k) : k \in 0..(2 * MaxDecimals) }

NoAccount == [state |-> "null", value |-> 0]

Unset == [state |-> "unset", value |-> 0]

Account(v) == [state |-> "account", value |-> v]

(* ------------------------------- state --------------------------------- *)

VARIABLES
    \* computeExpectedYield on its own (SpecYield)
    nft,                \* the result of getNFTMetadata
    hayYield,           \* the value returned, 0 before the call
    \* the chain
    distributor,        \* the pool's reward distributor: NoAccount or Account(multiplierDecimals)
    rewardEntries,      \* reward entry id -> NoAccount or Account(multiplier)
    lastWrite,          \* reward entry id -> the multiplier the last successful refresh wrote
    \* one invocation of the handler
    pc,
    method,
    body,
    responses,          \* the res.status(..).send(..) calls the handler made, in order
    thrown,             \* an exception left the handler
    rewardDistributor,
    expectedYield,
    expectedMultiplier,
    stakeEntryId,
    rewardEntryId,
    rewardEntryData,
    transaction,        \* the instructions added to the Transaction
    submitted           \* the executeTransaction calls: the transaction and whether it landed

chainVars == <<distributor, rewardEntries, lastWrite>>

requestVars == <<method, body>>

localVars == <<rewardDistributor, expectedYield, expectedMultiplier, stakeEntryId,
               rewardEntryId, rewardEntryData, transaction, submitted>>

yieldVars == <<nft, hayYield>>

vars == <<nft, hayYield, distributor, rewardEntries, lastWrite, pc, method, body,
          responses, thrown, rewardDistributor, expectedYield, expectedMultiplier,
          stakeEntryId, rewardEntryId, rewardEntryData, transaction, submitted>>

(* --------------------- inputs of computeExpectedYield ------------------ *)

\* trait entries the attribute lists are drawn from: legendary and plain
\* skins, an empty skin value, every badge tier and an unknown one, both
\* kinds of vignette, and values placed under a trait they do not belong to
AttrUniverse ==
    { [trait_type |-> "Skin", value |-> "Gold"],
      [trait_type |-> "Skin", value |-> "Plain"],
      [trait_type |-> "Skin", value |-> ""],
      [trait_type |-> "Badge", value |-> "Bronze"],
      [trait_type |-> "Badge", value |-> "Silver"],
      [trait_type |-> "Badge", value |-> "Gold"],
      [trait_type |-> "Badge", value |-> "Platinum"],
      [trait_type |-> "Badge", value |-> "Diamond"],
      [trait_type |-> "Badge", value |-> "Wood"],
      [trait_type |-> "Vignette", value |-> "Alpaca"],
      [trait_type |-> "Vignette", value |-> "Llama"],
      [trait_type |-> "Background", value |-> "Alpaca"] }

AttrLists == UNION { [1..n -> AttrUniverse] : n \in 0..MaxAttrs }

\* a failed fetch, a document without attributes, a document with a list
NftInputs ==
    {Undefined}
    \cup { getNFTMetadata(TRUE, [attributes |-> a]) :
             a \in {Undefined} \cup { Some(l) : l \in AttrLists } }

(* ----------------------------- the handler ----------------------------- *)

Response(status, type, yieldRate) ==
    [status |-> status, type |-> type, yieldRate |-> yieldRate]

\* line 40
methodRejected(m) == m # "POST"

\* new PublicKey(x) throws on a missing or malformed address (lines 46-48)
publicKeyThrows(b) ==
    \/ b.mint = Malformed
    \/ b.userPubkey = Malformed
    \/ b.stakePoolKey = Malformed

\* variant: the absence of the distributor goes unnoticed
distributorMissingNever(rd) == FALSE

\* line 68
distributorMissing(rd) == rd.state # "account"

\* variant: the yield is not scaled by the decimals
expectedMultiplierUnscaled(yield, decimals) == yield

\* line 73: expectedYield * (10 ** multiplierDecimals)
expectedMultiplierOf(yield, decimals) == yield * Pow10(decimals)

\* lines 100-103: multiplier / 10 ** multiplierDecimals, kept as the exact
\* quotient num / den (the operands are far below 2^53, so the floating
\* point quotient equals a whole number only when the exact one does)
currentMultiplier(multiplier, decimals) ==
    [num |-> multiplier, den |-> Pow10(decimals)]

\* variant: the comparison never succeeds
alreadySetNever(current, expected) == FALSE

\* line 106: currentMultiplier === expectedMultiplier
alreadySet(current, expected) == current.num = expected * current.den

\* variant: the initialization is never scheduled
needsInitNever(entry) == FALSE

\* line 90
needsInit(entry) == entry.state # "account"

\* lines 92-98
initRewardEntry(stakeEntry, rewardDistributorKey, rewardEntry) ==
    [kind |-> "initRewardEntry", stakeEntryId |-> stakeEntry,
     rewardDistributor |-> rewardDistributorKey, rewardEntryId |-> rewardEntry]

\* lines 113-123
updateRewardEntry(stakePoolKey, rewardDistributorKey, stakeEntry, multiplier) ==
    [kind |-> "updateRewardEntry", stakePoolId |-> stakePoolKey,
     rewardDistributorId |-> rewardDistributorKey, stakeEntryId |-> stakeEntry,
     multiplier |-> multiplier]

\* the effect of one instruction on the reward entries: the initialization
\* creates the entry, the update stores the multiplier it carries
applyInstruction(entries, ins) ==
    IF ins.kind = "initRewardEntry"
    THEN [entries EXCEPT ![ins.rewardEntryId] = Account(0)]
    ELSE [entries EXCEPT ![findRewardEntryId(ins.rewardDistributorId, ins.stakeEntryId)] =
              Account(ins.multiplier)]

RECURSIVE applyTransaction(_, _)
\* the effect of an executed transaction: its instructions in order
applyTransaction(entries, tx) ==
    IF tx = <<>> THEN entries
    ELSE applyTransaction(applyInstruction(entries, Head(tx)), Tail(tx))

FreshLocals ==
    /\ rewardDistributor = Unset
    /\ expectedYield = Undefined
    /\ expectedMultiplier = Undefined
    /\ stakeEntryId = Undefined
    /\ rewardEntryId = Undefined
    /\ rewardEntryData = Unset
    /\ transaction = <<>>
    /\ submitted = <<>>

NoRequest ==
    /\ pc = "idle"
    /\ method = "POST"
    /\ body = [mint |-> Malformed, userPubkey |-> Malformed, stakePoolKey |-> Malformed]
    /\ responses = <<>>
    /\ thrown = FALSE
    /\ FreshLocals

\* the state of the chain before the first request
Init ==
    /\ nft = Undefined
    /\ hayYield = 0
    /\ distributor \in {NoAccount} \cup { Account(d) : d \in 0..MaxDecimals }
    /\ rewardEntries \in
         [RewardEntryIds -> {NoAccount} \cup { Account(m) : m \in InitMultipliers }]
    /\ lastWrite = [e \in RewardEntryIds |-> Undefined]
    /\ NoRequest

\* line 38: the framework invokes the handler with a request
Receive ==
    /\ pc \in {"idle", "done"}
    /\ method' \in Methods
    /\ body' \in [mint : Mints \cup {Malformed},
                  userPubkey : Users \cup {Malformed},
                  stakePoolKey : Pools \cup {Malformed}]
    /\ pc' = "method"
    /\ responses' = <<>>
    /\ thrown' = FALSE
    /\ rewardDistributor' = Unset
    /\ expectedYield' = Undefined
    /\ expectedMultiplier' = Undefined
    /\ stakeEntryId' = Undefined
    /\ rewardEntryId' = Undefined
    /\ rewardEntryData' = Unset
    /\ transaction' = <<>>
    /\ submitted' = <<>>
    /\ UNCHANGED <<chainVars, yieldVars>>

\* lines 40-42: the 405 is sent and control falls through to line 44
MethodCheck ==
    /\ pc = "method"
    /\ responses' = IF methodRejected(method)
                    THEN Append(responses, Response(405, "none", Undefined))
                    ELSE responses
    /\ pc' = "parse"
    /\ UNCHANGED <<chainVars, yieldVars, requestVars, thrown, localVars>>

\* lines 44-52: the three addresses are parsed outside the try block
ParseBody ==
    /\ pc = "parse"
    /\ IF publicKeyThrows(body)
       THEN thrown' = TRUE /\ pc' = "done"
       ELSE thrown' = FALSE /\ pc' = "distributor"
    /\ UNCHANGED <<chainVars, yieldVars, requestVars, responses, localVars>>

\* lines 54-70
GetDistributor ==
    /\ pc = "distributor"
    /\ rewardDistributor' = distributor
    /\ pc' = IF distributorMissing(distributor) THEN "catch" ELSE "yield"
    /\ UNCHANGED <<chainVars, yieldVars, requestVars, responses, thrown, expectedYield,
                   expectedMultiplier, stakeEntryId, rewardEntryId, rewardEntryData,
                   transaction, submitted>>

\* lines 72-74: the metadata fetch may fail, the document is whatever is hosted
ComputeYield ==
    /\ pc = "yield"
    /\ \E fetchOk \in BOOLEAN, doc \in HandlerDocs :
         LET y == computeExpectedYield(getNFTMetadata(fetchOk, doc))
         IN  /\ expectedYield' = Some(y)
             /\ expectedMultiplier' =
                    Some(expectedMultiplierOf(y, rewardDistributor.value))
    /\ pc' = "stakeEntry"
    /\ UNCHANGED <<chainVars, yieldVars, requestVars, responses, thrown, rewardDistributor,
                   stakeEntryId, rewardEntryId, rewardEntryData, transaction, submitted>>

\* lines 76-86: findStakeEntryIdFromMint uses the connection and may throw
FindStakeEntry ==
    /\ pc = "stakeEntry"
    /\ \E ok \in BOOLEAN :
         IF ok
         THEN LET se == findStakeEntryIdFromMint(body.userPubkey, body.stakePoolKey, body.mint)
              IN  /\ stakeEntryId' = Some(se)
                  /\ rewardEntryId' =
                         Some(findRewardEntryId(findRewardDistributorId(body.stakePoolKey), se))
                  /\ pc' = "rewardEntry"
         ELSE /\ UNCHANGED <<stakeEntryId, rewardEntryId>>
              /\ pc' = "catch"
    /\ UNCHANGED <<chainVars, yieldVars, requestVars, responses, thrown, rewardDistributor,
                   expectedYield, expectedMultiplier, rewardEntryData, transaction, submitted>>

\* lines 88-111
GetRewardEntry ==
    /\ pc = "rewardEntry"
    /\ LET entry == rewardEntries[Get(rewardEntryId)]
       IN  /\ rewardEntryData' = entry
           /\ IF needsInit(entry)
              THEN /\ transaction' = Append(transaction,
                          initRewardEntry(Get(stakeEntryId),
                                          findRewardDistributorId(body.stakePoolKey),
                                          Get(rewardEntryId)))
                   /\ pc' = "update"
                   /\ UNCHANGED responses
              ELSE IF alreadySet(currentMultiplier(entry.value, rewardDistributor.value),
                                 Get(expectedMultiplier))
              THEN /\ responses' = Append(responses, Response(200, "ignored", expectedYield))
                   /\ pc' = "done"
                   /\ UNCHANGED transaction
              ELSE /\ pc' = "update"
                   /\ UNCHANGED <<responses, transaction>>
    /\ UNCHANGED <<chainVars, yieldVars, requestVars, thrown, rewardDistributor,
                   expectedYield, expectedMultiplier, stakeEntryId, rewardEntryId, submitted>>

\* lines 113-123
UpdateRewardEntry ==
    /\ pc = "update"
    /\ transaction' = Append(transaction,
           updateRewardEntry(body.stakePoolKey, findRewardDistributorId(body.stakePoolKey),
                             Get(stakeEntryId), Get(expectedMultiplier)))
    /\ pc' = "execute"
    /\ UNCHANGED <<chainVars, yieldVars, requestVars, responses, thrown, rewardDistributor,
                   expectedYield, expectedMultiplier, stakeEntryId, rewardEntryId,
                   rewardEntryData, submitted>>

\* lines 125-134: the submission succeeds and the reward entry is written
ExecuteOk ==
    /\ pc = "execute"
    /\ submitted' = Append(submitted, [transaction |-> transaction, landed |-> TRUE])
    /\ rewardEntries' = applyTransaction(rewardEntries, transaction)
    /\ lastWrite' = [lastWrite EXCEPT ![Get(rewardEntryId)] = expectedMultiplier]
    /\ responses' = Append(responses, Response(200, "ok", expectedYield))
    /\ pc' = "done"
    /\ UNCHANGED <<distributor, yieldVars, requestVars, thrown, rewardDistributor,
                   expectedYield, expectedMultiplier, stakeEntryId, rewardEntryId,
                   rewardEntryData, transaction>>

\* lines 125-131: executeTransaction throws and nothing is written
ExecuteFails ==
    /\ pc = "execute"
    /\ submitted' = Append(submitted, [transaction |-> transaction, landed |-> FALSE])
    /\ pc' = "catch"
    /\ UNCHANGED <<chainVars, yieldVars, requestVars, responses, thrown, rewardDistributor,
                   expectedYield, expectedMultiplier, stakeEntryId, rewardEntryId,
                   rewardEntryData, transaction>>

\* lines 136-139
Catch ==
    /\ pc = "catch"
    /\ responses' = Append(responses, Response(500, "error", Undefined))
    /\ pc' = "done"
    /\ UNCHANGED <<chainVars, yieldVars, requestVars, thrown, localVars>>

Next ==
    \/ Receive
    \/ MethodCheck
    \/ ParseBody
    \/ GetDistributor
    \/ ComputeYield
    \/ FindStakeEntry
    \/ GetRewardEntry
    \/ UpdateRewardEntry
    \/ ExecuteOk
    \/ ExecuteFails
    \/ Catch

Spec == Init /\ [][Next]_vars

(* ------------------ computeExpectedYield on its own -------------------- *)

InitYield ==
    /\ nft \in NftInputs
    /\ hayYield = 0
    /\ distributor = NoAccount
    /\ rewardEntries = [e \in RewardEntryIds |-> NoAccount]
    /\ lastWrite = [e \in RewardEntryIds |-> Undefined]
    /\ NoRequest

\* lines 143-183: one call of computeExpectedYield
Compute ==
    /\ hayYield = 0
    /\ hayYield' = computeExpectedYield(nft)
    /\ UNCHANGED <<nft, chainVars, pc, requestVars, responses, thrown, localVars>>

NextYield == Compute

SpecYield == InitYield /\ [][NextYield]_vars

TypeOK ==
    /\ pc \in {"idle", "method", "parse", "distributor", "yield", "stakeEntry",
               "rewardEntry", "update", "execute", "catch", "done"}
    /\ method \in Methods
    /\ thrown \in BOOLEAN
    /\ hayYield \in 0..24
    /\ Len(responses) <= 2
    /\ Len(transaction) <= 2
    /\ Len(submitted) <= 1

(* ------------------------------ claims --------------------------------- *)

Sent(status, type) ==
    \E i \in 1..Len(responses) : responses[i].status = status /\ responses[i].type = type

SentStatus(status) == \E i \in 1..Len(responses) : responses[i].status = status

LastResponse == responses[Len(responses)]

\* the stored multiplier divided by 10^decimals equals the expected multiplier
StoredDescaledEqualsExpected ==
    /\ rewardEntryData.state = "account"
    /\ rewardEntryData.value = Get(expectedMultiplier) * Pow10(rewardDistributor.value)

StoredDescaledDiffers ==
    /\ rewardEntryData.state = "account"
    /\ rewardEntryData.value # Get(expectedMultiplier) * Pow10(rewardDistributor.value)

\* C1: a request whose method is not POST is answered 405 and the handler
\* stops: no account is resolved, no transaction is built or submitted and
\* no other response is sent.
C1_NonPostStops ==
    (method # "POST" /\ pc \notin {"idle", "method"}) =>
        /\ pc = "done"
        /\ responses = << Response(405, "none", Undefined) >>
        /\ rewardDistributor = Unset
        /\ rewardEntryData = Unset
        /\ transaction = <<>>
        /\ submitted = <<>>

\* C2: when the reward entry exists and its stored multiplier divided by
\* 10^decimals equals the expected multiplier, the handler ends at once with
\* a 200 'ignored' response echoing the yield; no instruction is added to
\* the transaction and nothing is submitted.
C2_AlreadySetIgnored ==
    StoredDescaledEqualsExpected =>
        /\ pc = "done"
        /\ transaction = <<>>
        /\ submitted = <<>>
        /\ LastResponse = Response(200, "ignored", expectedYield)
        /\ ~Sent(200, "ok")
        /\ ~SentStatus(500)

C2_Witness ==
    /\ pc = "done"
    /\ StoredDescaledEqualsExpected
    /\ rewardDistributor.value > 0
    /\ Sent(200, "ignored")

C4_InitBeforeUpdate ==
    /\ rewardEntryData.state = "null" =>
          /\ ~Sent(200, "ignored")
          /\ pc \in {"update", "execute", "catch", "done"}
          /\ pc \in {"catch", "done"} =>
                /\ Len(submitted) = 1
                /\ Len(submitted[1].transaction) = 2
                /\ submitted[1].transaction[1] =
                       initRewardEntry(
                           findStakeEntryIdFromMint(body.userPubkey, body.stakePoolKey, body.mint),
                           findRewardDistributorId(body.stakePoolKey),
                           findRewardEntryId(findRewardDistributorId(body.stakePoolKey),
                               findStakeEntryIdFromMint(body.userPubkey, body.stakePoolKey,
                                                        body.mint)))
                /\ submitted[1].transaction[2].kind = "updateRewardEntry"
    /\ rewardEntryData.state = "account" =>
          \A i \in 1..Len(submitted) : \A k \in 1..Len(submitted[i].transaction) :
              submitted[i].transaction[k].kind # "initRewardEntry"

C4_Witness ==
    /\ pc = "done"
    /\ rewardEntryData.state = "null"
    /\ Len(submitted) = 1
    /\ submitted[1].landed
    /\ rewardEntries[Get(rewardEntryId)].state = "account"

\* the attribute list the yield was computed from, when there is one
HasList == IsDefined(nft) /\ IsDefined(attributesOf(nft))

List == Get(attributesOf(nft))

Computed == hayYield # 0

HasEntry(l, trait, value) ==
    \E i \in 1..Len(l) : l[i].trait_type = trait /\ l[i].value = value

CountTrait(l, trait) == Cardinality({ i \in 1..Len(l) : l[i].trait_type = trait })

AtMostOnePerTrait(l) ==
    \A i, j \in 1..Len(l) : l[i].trait_type = l[j].trait_type => i = j

BadgeTiers == {"Bronze", "Silver", "Gold", "Platinum", "Diamond"}

TierBonus ==
    [v \in BadgeTiers |->
        CASE v = "Bronze" -> 5 [] v = "Silver" -> 7 [] v = "Gold" -> 9
          [] v = "Platinum" -> 11 [] v = "Diamond" -> 15]

\* the bonuses as the yield rule states them, for a list with one entry per trait
RuleSkin(l) == IF \E v \in legendarySkins : HasEntry(l, "Skin", v) THEN 2 ELSE 0

RuleBadge(l) ==
    IF \E v \in BadgeTiers : HasEntry(l, "Badge", v)
    THEN TierBonus[CHOOSE v \in BadgeTiers : HasEntry(l, "Badge", v)]
    ELSE 0

RuleVignette(l) == IF HasEntry(l, "Vignette", "Alpaca") THEN 5 ELSE 0

\* the index of the first entry of a trait, 0 when there is none
FirstIndex(l, trait) ==
    IF CountTrait(l, trait) = 0 THEN 0
    ELSE CHOOSE i \in 1..Len(l) :
             /\ l[i].trait_type = trait
             /\ \A j \in 1..(i - 1) : l[j].trait_type # trait

\* C5: for a list with at most one entry per trait type the yield is
\* 2 + skin bonus + badge tier bonus + vignette bonus; a failed fetch and a
\* document without attributes give exactly 2; the yield is always in 2..24.
C5_YieldRule ==
    Computed =>
        /\ hayYield >= 2 /\ hayYield <= 24
        /\ ~HasList => hayYield = 2
        /\ (HasList /\ AtMostOnePerTrait(List)) =>
               hayYield = 2 + RuleSkin(List) + RuleBadge(List) + RuleVignette(List)

C5_Witness ==
    /\ Computed
    /\ HasList
    /\ AtMostOnePerTrait(List)
    /\ Len(List) = 3
    /\ hayYield = 24

\* C6, as claimed: a legendary Skin entry anywhere in the list, whatever
\* other Skin entries the list holds, brings the +2 skin bonus.
C6_AnyLegendarySkin ==
    (Computed /\ HasList /\ (\E v \in legendarySkins : HasEntry(List, "Skin", v))) =>
        hayYield = 2 + 2 + BadgeBonus(attributesOf(nft)) + VignetteBonus(attributesOf(nft))

\* C6, amended: the first Skin entry of the list decides. When its value is
\* legendary the +2 skin bonus is added, at any position in the list and
\* whatever Skin entries follow it; when it is not, no skin bonus is added,
\* even if a later Skin entry is legendary.
C6_FirstSkinDecides ==
    (Computed /\ HasList /\ FirstIndex(List, "Skin") # 0) =>
        hayYield = (IF List[FirstIndex(List, "Skin")].value \in legendarySkins THEN 4 ELSE 2)
                   + BadgeBonus(attributesOf(nft)) + VignetteBonus(attributesOf(nft))

C6_Witness ==
    /\ Computed
    /\ HasList
    /\ CountTrait(List, "Skin") >= 2
    /\ FirstIndex(List, "Skin") > 1
    /\ List[FirstIndex(List, "Skin")].value \in legendarySkins
    /\ hayYield >= 4

\* the tier bonus of the first Badge entry whose value is one of the tiers
FirstTierBonus(l) ==
    LET tiers == SelectSeq(l, LAMBDA att : att.trait_type = "Badge" /\ att.value \in BadgeTiers)
    IN  IF tiers = <<>> THEN 0 ELSE TierBonus[tiers[1].value]

\* C7, as claimed: with several Badge entries, the bonus added is that of
\* the first Badge entry whose value is one of the five tiers.
C7_FirstTierBadge ==
    (Computed /\ HasList /\ CountTrait(List, "Badge") >= 2) =>
        hayYield = 2 + SkinBonus(attributesOf(nft)) + VignetteBonus(attributesOf(nft))
                   + FirstTierBonus(List)

\* C7, amended: with several Badge entries, at most one badge tier bonus is
\* added, decided by the first Badge entry of the list alone: its tier bonus
\* when its value is one of the five tiers, and 0 otherwise, even when a
\* later Badge entry names a tier.
C7_FirstBadgeDecides ==
    (Computed /\ HasList /\ CountTrait(List, "Badge") >= 2) =>
        LET first == List[FirstIndex(List, "Badge")].value
        IN  hayYield = 2 + SkinBonus(attributesOf(nft)) + VignetteBonus(attributesOf(nft))
                       + (IF first \in BadgeTiers THEN TierBonus[first] ELSE 0)

C7_Witness ==
    /\ Computed
    /\ HasList
    /\ CountTrait(List, "Badge") >= 2
    /\ List[FirstIndex(List, "Badge")].value \notin BadgeTiers
    /\ \E v \in BadgeTiers : HasEntry(List, "Badge", v)
    /\ hayYield = 2

\* C8: when the pool's reward distributor is absent the handler goes to the
\* error response before the yield is computed and with no instruction
\* added and nothing submitted; and a finished handler that found no
\* distributor, or in which the stake entry resolution or the submission
\* threw, has sent 500 'error' last and no 200 response.
C8_FailureIs500 ==
    /\ rewardDistributor.state = "null" =>
          /\ pc \in {"catch", "done"}
          /\ expectedYield = Undefined
          /\ expectedMultiplier = Undefined
          /\ transaction = <<>>
          /\ submitted = <<>>
    /\ ( /\ pc = "done"
         /\ \/ rewardDistributor.state = "null"
            \/ IsDefined(expectedYield) /\ ~IsDefined(stakeEntryId)
            \/ \E i \in 1..Len(submitted) : ~submitted[i].landed ) =>
          /\ LastResponse = Response(500, "error", Undefined)
          /\ ~SentStatus(200)

C8_Witness ==
    /\ pc = "done"
    /\ rewardDistributor.state = "null"
    /\ responses = << Response(500, "error", Undefined) >>

\* C9: a refresh for an entry whose last successful refresh wrote the
\* multiplier this refresh expects (same yield, same decimals) does not go
\* on to build and submit a transaction.
C9_Idempotent ==
    pc \in {"update", "execute"} => lastWrite[Get(rewardEntryId)] # expectedMultiplier

\* C10: a finished invocation has sent exactly one response.
C10_ExactlyOneResponse == pc = "done" => Len(responses) = 1

====
